---- MODULE Spec2Model ----
(***************************************************************************)
(* Model of the incremental Slack history archiver                        *)
(* (src/src/bedrockIntegration.py): watermark resolution from the keys of  *)
(* the archive objects, history pagination, thread reconstruction and the  *)
(* size-bounded archive writer, driven by main().                         *)
(*                                                                         *)
(* Time is counted in ticks, TicksPerSec ticks to the second.  A Slack     *)
(* timestamp ("1736427680.581349") is a tick count; int(now.timestamp())   *)
(* is the tick count divided by TicksPerSec, rounded down.  Strings are    *)
(* sequences of symbols; every symbol is one byte long, except Filler (a   *)
(* run of FillerBytes bytes) and the literal "unknown".                    *)
(***************************************************************************)
EXTENDS Integers, Sequences, FiniteSets, TLC

\* ------------------------------------------------------------- bounds
TicksPerSec == 2
StartClock == 2
MaxClock == 6
MaxMsgs == 3
MaxRuns == 2
PageCap == 2
FillerBytes == 2621384
MaxPieces == 3
MaxTopics == 3

\* ------------------------------------------------- program constants
MiB == 1024 * 1024
MAX_FILE_SIZE == 10 * MiB
Limit == 1000

\* ------------------------------------------------------------ strings
Filler == "FILL"
Unknown == <<"unknown">>

SymBytes(c) == IF c = Filler THEN FillerBytes ELSE IF c = "unknown" THEN 7 ELSE 1

RECURSIVE Utf8Len(_)
\* len(s.encode('utf-8')) of a string without characters JSON escapes
Utf8Len(s) == IF s = <<>> THEN 0 ELSE SymBytes(Head(s)) + Utf8Len(Tail(s))

RECURSIVE Replace(_, _, _)
\* str.replace(old, new): leftmost, non-overlapping occurrences (old non-empty)
Replace(s, old, new) ==
    IF Len(s) < Len(old) THEN s
    ELSE IF SubSeq(s, 1, Len(old)) = old
         THEN new \o Replace(SubSeq(s, Len(old) + 1, Len(s)), old, new)
         ELSE <<Head(s)>> \o Replace(Tail(s), old, new)

MentionToken(user_id) == <<"<", "@">> \o user_id \o <<">">>

RECURSIVE NormalizeFrom(_, _, _)
NormalizeFrom(text, users, i) ==
    IF i > Len(users) THEN text
    ELSE NormalizeFrom(Replace(text, MentionToken(users[i].id), <<"@">> \o users[i].name),
                       users, i + 1)

\* normalize_slack_text: one replace per entry of the mapping, in dict order
normalize_slack_text(text, users) == NormalizeFrom(text, users, 1)

\* users.get(key, "unknown")
UsersGet(users, key) ==
    IF \E i \in 1..Len(users) : users[i].id = key
    THEN users[CHOOSE i \in 1..Len(users) : users[i].id = key].name
    ELSE Unknown

\* message.get("user", "unknown"): an absent user field is the empty id here
NoUser == <<>>
MessageUser(message) == IF message.user = NoUser THEN Unknown ELSE message.user

\* ----------------------------------------------------------- integers
DigitChar == <<"0", "1", "2", "3", "4", "5", "6", "7", "8", "9">>
Digits == {DigitChar[i] : i \in 1..10}
DigitVal(c) == (CHOOSE i \in 1..10 : DigitChar[i] = c) - 1

RECURSIVE NatToStr(_)
NatToStr(n) == IF n < 10 THEN <<DigitChar[n + 1]>>
               ELSE NatToStr(n \div 10) \o <<DigitChar[(n % 10) + 1]>>

\* str(int) in an f-string
IntToStr(n) == IF n < 0 THEN <<"-">> \o NatToStr(0 - n) ELSE NatToStr(n)

RECURSIVE DigitsVal(_, _)
DigitsVal(s, acc) == IF s = <<>> THEN acc
                     ELSE DigitsVal(Tail(s), 10 * acc + DigitVal(Head(s)))

AllDigits(s) == s # <<>> /\ \A i \in 1..Len(s) : s[i] \in Digits

\* int(text): an optional sign, then decimal digits; anything else raises
\* ValueError (ok = FALSE)
ParseInt(s) ==
    IF AllDigits(s) THEN [ok |-> TRUE, val |-> DigitsVal(s, 0)]
    ELSE IF s # <<>> /\ Head(s) \in {"+", "-"} /\ AllDigits(Tail(s))
         THEN [ok |-> TRUE,
               val |-> IF Head(s) = "-" THEN 0 - DigitsVal(Tail(s), 0)
                       ELSE DigitsVal(Tail(s), 0)]
         ELSE [ok |-> FALSE, val |-> 0]

\* a resolver that forgets to split the file name
WholeName(s) == s

RECURSIVE FirstSegment(_)
\* file_name.split("_")[0]
FirstSegment(s) == IF s = <<>> \/ Head(s) = "_" THEN <<>>
                   ELSE <<Head(s)>> \o FirstSegment(Tail(s))

\* Optional[int]
None == [some |-> FALSE, val |-> 0]
Some(v) == [some |-> TRUE, val |-> v]
\* truthiness of an Optional[int]: None and 0 are falsy
Truthy(o) == o.some /\ o.val # 0

\* ------------------------------------------------------- serialization
\* datetime.fromtimestamp(float(ts)): whole seconds and the sub-second part
\* (the local UTC offset is taken to be zero)
FromTimestamp(ts) == [sec |-> ts \div TicksPerSec, sub |-> ts % TicksPerSec]

\* len(dt.isoformat()): "YYYY-MM-DDTHH:MM:SS", plus ".ffffff" when the
\* microsecond part is not zero
IsoLen(dt) == IF dt.sub = 0 THEN 19 ELSE 26

DtTicks(dt) == dt.sec * TicksPerSec + dt.sub

\* json.dumps(m, ensure_ascii=False) of one TopicMessage:
\* {"user": "U", "text": "T", "datetime": "D"}
MsgCompact(m) == 40 + Utf8Len(m.user) + Utf8Len(m.text) + IsoLen(m.datetime)

\* the same message under indent=2, nested in a Topic of a list
MsgIndented(m) == 78 + Utf8Len(m.user) + Utf8Len(m.text) + IsoLen(m.datetime)

RECURSIVE SumSeq(_)
SumSeq(s) == IF s = <<>> THEN 0 ELSE Head(s) + SumSeq(Tail(s))

\* entry_size: len(json.dumps(entry, ensure_ascii=False).encode('utf-8'))
EntrySize(entry) ==
    29 + Utf8Len(entry.topic)
       + SumSeq([i \in 1..Len(entry.messages) |-> MsgCompact(entry.messages[i])])
       + 2 * (Len(entry.messages) - 1)

TopicIndented(entry) ==
    49 + Utf8Len(entry.topic)
       + SumSeq([i \in 1..Len(entry.messages) |-> MsgIndented(entry.messages[i])])
       + 2 * (Len(entry.messages) - 1)

\* bytes of the Body handed to put_object:
\* json.dumps(file_data, ensure_ascii=False, indent=2)
BodySize(file_data) ==
    IF file_data = <<>> THEN 2
    ELSE 4 + SumSeq([i \in 1..Len(file_data) |-> TopicIndented(file_data[i])])
           + 2 * (Len(file_data) - 1)

\* ------------------------------------------------------- archive keys
\* hashlib.md5(...).hexdigest(): a function of its input, taken to be
\* collision-free; the digest is one symbol of the file name
Md5Hex(input) == ToString(input)

\* int(datetime.now().timestamp())
UnixSeconds(clock) == clock \div TicksPerSec

\* generate_file_name, reading the clock at `clock`
generate_file_name(channel_name, channel_id, clock) ==
    LET timestamp == UnixSeconds(clock)
        hash_value == Md5Hex(<<channel_name, channel_id, timestamp>>)
    IN [channel_name |-> channel_name,
        channel_id |-> channel_id,
        file |-> IntToStr(timestamp) \o <<"_", hash_value, ".json">>]

\* s3.list_objects_v2(Bucket, Prefix): the keys under
\* slack_history/{channel_name}/{channel_id}/
ListObjects(store, channel_id, channel_name) ==
    {o.key : o \in {x \in store : x.key.channel_name = channel_name
                                   /\ x.key.channel_id = channel_id}}

\* s3.put_object: the object under Key is replaced
PutObject(store, key, body) ==
    {o \in store : o.key # key} \cup {[key |-> key, body |-> body]}

SetMax(S) == CHOOSE x \in S : \A y \in S : y <= x

\* get_latest_timestamp
get_latest_timestamp(store, channel_id, channel_name) ==
    LET contents == ListObjects(store, channel_id, channel_name)
        parsed == {ParseInt(FirstSegment(k.file)) : k \in contents}
        timestamps == {p.val : p \in {q \in parsed : q.ok}}
    IN IF contents = {} THEN None
       ELSE IF timestamps # {} THEN Some(SetMax(timestamps)) ELSE None

\* ------------------------------------------------------ the chat API
\* client.users_list()["members"]
Members == << [id |-> <<"U", "1">>, name |-> <<"a", "l">>] >>

\* fetch_users
fetch_users == Members

\* os.environ["SLACK_CHANNEL_ID"]
TargetId == "C1"

\* client.conversations_list()["channels"]; is_member of the target channel
\* is whatever it is when the run lists the channels
ConversationsList(member) ==
    << [id |-> "C0", name |-> "random", is_member |-> TRUE],
       [id |-> TargetId, name |-> "general", is_member |-> member] >>

\* what a user can post: (user, text)
Templates ==
    { [user |-> <<"U", "1">>, text |-> <<"h", "<", "@", "U", "1", ">">>],
      [user |-> <<"U", "9">>, text |-> <<Filler>>] }

\* a reconstructor that takes every message for a thread root
IsRootAlways(m) == TRUE

\* line 66
IsRoot(m) == m.has_thread /\ m.thread_ts = m.ts

\* conversations.history lists the channel's top-level messages: thread
\* replies appear there only when they were broadcast to the channel
TopLevel(m) == ~m.has_thread \/ m.thread_ts = m.ts \/ m.reply_broadcast

\* the messages of `chan` (by index) a history request with these bounds
\* selects: older than latest, and at or after oldest (whole seconds) if given
InRange(chan, latest, oldest) ==
    {i \in 1..Len(chan) :
        /\ TopLevel(chan[i])
        /\ chan[i].ts < latest
        /\ (oldest.some => chan[i].ts >= oldest.val * TicksPerSec)}

RECURSIVE NewestFirst(_, _, _)
\* the n newest messages among the indices S, newest first
NewestFirst(chan, S, n) ==
    IF n = 0 \/ S = {} THEN <<>>
    ELSE LET i == SetMax(S)
         IN <<chan[i]>> \o NewestFirst(chan, S \ {i}, n - 1)

Min(a, b) == IF a <= b THEN a ELSE b

\* client.conversations_history(channel, limit, latest[, oldest]) returning
\* n messages (the server chooses n, at most `limit`)
ConversationsHistory(chan, limit, latest, oldest, n) ==
    LET sel == InRange(chan, latest, oldest)
    IN [messages |-> NewestFirst(chan, sel, n),
        has_more |-> n < Cardinality(sel)]

\* the page sizes the server may choose
PageSizes(chan, limit, latest, oldest) ==
    LET c == Cardinality(InRange(chan, latest, oldest))
    IN IF c = 0 THEN {0} ELSE 1..Min(Min(limit, PageCap), c)

\* client.conversations_replies(channel, ts)["messages"]: the thread's root,
\* then its replies, oldest first (chan is in posting order)
ConversationsReplies(chan, thread_ts) ==
    SelectSeq(chan, LAMBDA m : m.ts = thread_ts \/ (m.has_thread /\ m.thread_ts = thread_ts))

\* fetch_thread_replies: every reply gets its "datetime"
fetch_thread_replies(chan, thread_ts) ==
    LET replies == ConversationsReplies(chan, thread_ts)
    IN [i \in 1..Len(replies) |->
          [ts |-> replies[i].ts, user |-> replies[i].user, text |-> replies[i].text,
           reply_broadcast |-> replies[i].reply_broadcast,
           datetime |-> FromTimestamp(replies[i].ts)]]

\* thread_replies[0:]: the root is not left out
RestKeepsRoot(s) == s

\* thread_replies[1:]
Rest(s) == IF s = <<>> THEN <<>> ELSE Tail(s)

\* one TopicMessage
TopicMessage(m, users, dt) ==
    [user |-> UsersGet(users, MessageUser(m)),
     text |-> normalize_slack_text(m.text, users),
     datetime |-> dt]

\* a reconstructor that also drops the flagged messages of the reply list
TopicDataUnflagged(message, thread_replies, users) ==
    LET rest == SelectSeq(Rest(thread_replies), LAMBDA r : ~r.reply_broadcast)
    IN [topic |-> normalize_slack_text(message.text, users),
        messages |-> <<TopicMessage(message, users, FromTimestamp(message.ts))>>
                     \o [i \in 1..Len(rest) |-> TopicMessage(rest[i], users, rest[i].datetime)]]

\* topic_data of a thread root, lines 68-83
TopicData(message, thread_replies, users) ==
    LET rest == Rest(thread_replies)
    IN [topic |-> normalize_slack_text(message.text, users),
        messages |-> <<TopicMessage(message, users, FromTimestamp(message.ts))>>
                     \o [i \in 1..Len(rest) |-> TopicMessage(rest[i], users, rest[i].datetime)]]

\* the "continue" of line 63
SkipBroadcast(message) == message.reply_broadcast

\* a paginator that goes on until a page comes back empty
LoopEndsOnEmptyPage(response) == response.messages = <<>>

\* line 56: the while loop ends on a page that reports no more
LoopEnds(response) == ~response.has_more

\* a paginator that takes the newest message of the page for the next bound
NextLatestFirst(response) == response.messages[1].ts

\* line 58: float(response["messages"][-1]["ts"])
NextLatest(response) == response.messages[Len(response.messages)].ts

\* a paginator that keeps only the page it got last
ExtendReplaces(msgs, page) == page

\* line 55: messages.extend(response["messages"])
Extend(msgs, page) == msgs \o page

\* a main that takes every channel it is a member of
IsTargetAnyMember(ch) == ch.is_member

\* lines 150 and 152
IsTarget(ch) == ch.is_member /\ ch.id = TargetId

\* a writer that does not empty the batch it has flushed
AfterFlushKeeps(batch, entry) == Append(batch, entry)

\* lines 129 and 132: the batch after a flush
AfterFlush(batch, entry) == <<entry>>

\* one call of an external API, as the call log holds it
Call(api, channel_id) == [api |-> api, channel |-> channel_id]

\* a writer that forgets to ask whether the batch holds anything
MustFlushEvenEmpty(total, entry_size, batch) == total + entry_size > MAX_FILE_SIZE

\* the flush condition of line 120
MustFlush(total, entry_size, batch) == total + entry_size > MAX_FILE_SIZE /\ batch # <<>>

\* --------------------------------------------------------------- state
VARIABLES
    now,             \* the clock, in ticks
    channel,         \* the target channel's messages, in posting order
    storage,         \* the bucket: a set of [key, body]
    pc,              \* where the run is: idle, main, history, scan, save
    runs,            \* runs started so far
    outcome,         \* how the last run ended: none, completed, crashed
    chans,           \* main: response["channels"]
    ci,              \* main: position of the for loop over the channels
    users,           \* main: users
    main_latest_ts,  \* main: latest_ts, the resolver's result
    start_time,      \* main / fetch_channel_history: start_time
    latest_ts,       \* fetch_channel_history: latest_ts
    messages,        \* fetch_channel_history: messages
    scan,            \* fetch_channel_history: position of the for loop
    structured_data, \* fetch_channel_history: structured_data; save_to_s3: data
    idx,             \* save_to_s3: position of the for loop
    total_size,      \* save_to_s3: total_size
    file_data,       \* save_to_s3: file_data
    histLog,         \* history requests of the last run to finish, in order
    replyLog,        \* thread-reply fetches of that run, in order
    putLog,          \* every put_object so far, in order
    calls,           \* the external calls of that run, in order
    orphans          \* roots left unwritten by a run that crashed after a write

vars == <<now, channel, storage, pc, runs, outcome, chans, ci, users,
          main_latest_ts, start_time, latest_ts, messages, scan,
          structured_data, idx, total_size, file_data, histLog, replyLog,
          putLog, calls, orphans>>

envVars == <<now, channel>>
runVars == <<chans, ci, users, main_latest_ts, start_time, latest_ts, messages,
             scan, structured_data, idx, total_size, file_data>>
logVars == <<histLog, replyLog, putLog, calls, orphans>>

TargetName == "general"

\* the locals of a process that is not running
Fresh ==
    /\ chans = <<>> /\ ci = 0 /\ users = <<>>
    /\ main_latest_ts = None /\ start_time = None /\ latest_ts = 0
    /\ messages = <<>> /\ scan = 0 /\ structured_data = <<>>
    /\ idx = 0 /\ total_size = 0 /\ file_data = <<>>

FreshNext ==
    /\ chans' = <<>> /\ ci' = 0 /\ users' = <<>>
    /\ main_latest_ts' = None /\ start_time' = None /\ latest_ts' = 0
    /\ messages' = <<>> /\ scan' = 0 /\ structured_data' = <<>>
    /\ idx' = 0 /\ total_size' = 0 /\ file_data' = <<>>

Init ==
    /\ now = StartClock
    /\ channel = <<>>
    /\ storage = {}
    /\ pc = "idle" /\ runs = 0 /\ outcome = "none"
    /\ Fresh
    /\ histLog = <<>> /\ replyLog = <<>> /\ putLog = <<>> /\ orphans = {}
    /\ calls = <<>>

\* --------------------------------------------------------- environment
\* time passes
Tick ==
    /\ now < MaxClock
    /\ now' = now + 1
    /\ UNCHANGED <<channel, storage, pc, runs, outcome, runVars, logVars>>

NewMessage(ts, tpl, has_thread, thread_ts, broadcast) ==
    [ts |-> ts, has_thread |-> has_thread, thread_ts |-> thread_ts,
     reply_broadcast |-> broadcast, user |-> tpl.user, text |-> tpl.text]

RootTs(chan) ==
    {chan[i].ts : i \in {j \in 1..Len(chan) :
                            chan[j].has_thread /\ chan[j].thread_ts = chan[j].ts}}

\* somebody posts to the channel: a plain message, a thread root, or a reply
\* (broadcast or not) to an existing root.  The message's ts is the clock's
\* reading, and every later reading is greater.
Post ==
    /\ now < MaxClock
    /\ Len(channel) < MaxMsgs
    /\ \E tpl \in Templates :
         \/ channel' = Append(channel, NewMessage(now, tpl, FALSE, 0, FALSE))
         \/ channel' = Append(channel, NewMessage(now, tpl, TRUE, now, FALSE))
         \/ \E r \in RootTs(channel), b \in BOOLEAN :
              channel' = Append(channel, NewMessage(now, tpl, TRUE, r, b))
    /\ now' = now + 1
    /\ UNCHANGED <<storage, pc, runs, outcome, runVars, logVars>>

\* -------------------------------------------------------------- the run
\* main, lines 147-148: the user directory, then the channel list
StartRun ==
    /\ pc = "idle"
    /\ runs < MaxRuns
    /\ runs' = runs + 1
    /\ users' = fetch_users
    /\ \E member \in BOOLEAN : chans' = ConversationsList(member)
    /\ ci' = 1
    /\ pc' = "main"
    /\ outcome' = "none"
    /\ histLog' = <<>> /\ replyLog' = <<>>
    /\ calls' = <<Call("users_list", ""), Call("conversations_list", "")>>
    /\ UNCHANGED <<envVars, storage, main_latest_ts, start_time, latest_ts,
                   messages, scan, structured_data, idx, total_size, file_data,
                   putLog, orphans>>

\* main, lines 149-156, and fetch_channel_history, lines 44-45: a channel that
\* is not the target is passed over; for the target the watermark is resolved
\* and pagination starts at the clock's reading
MainStep ==
    /\ pc = "main"
    /\ ci <= Len(chans)
    /\ LET ch == chans[ci]
       IN IF IsTarget(ch)
          THEN LET resolved == get_latest_timestamp(storage, ch.id, ch.name)
               IN /\ main_latest_ts' = resolved
                  /\ calls' = Append(calls, Call("list_objects", ch.id))
                  /\ start_time' = IF Truthy(resolved) THEN resolved ELSE None
                  /\ latest_ts' = now
                  /\ messages' = <<>>
                  /\ pc' = "history"
                  /\ ci' = ci
          ELSE /\ ci' = ci + 1
               /\ UNCHANGED <<main_latest_ts, start_time, latest_ts, messages, pc,
                              calls>>
    /\ UNCHANGED <<envVars, storage, runs, outcome, chans, users, scan,
                   structured_data, idx, total_size, file_data, histLog,
                   replyLog, putLog, orphans>>

\* main returns
MainDone ==
    /\ pc = "main"
    /\ ci > Len(chans)
    /\ pc' = "idle"
    /\ outcome' = "completed"
    /\ FreshNext
    /\ UNCHANGED <<envVars, storage, runs, logVars>>

\* line 52: "oldest" is set only for a truthy start_time
OldestParam(st) == IF Truthy(st) THEN st ELSE None

\* fetch_channel_history, lines 46-58: one turn of the while loop
HistoryRequest ==
    /\ pc = "history"
    /\ LET oldest == OldestParam(start_time)
       IN \E n \in PageSizes(channel, Limit, latest_ts, oldest) :
            LET response == ConversationsHistory(channel, Limit, latest_ts, oldest, n)
            IN /\ messages' = Extend(messages, response.messages)
               /\ histLog' = Append(histLog,
                                    [channel |-> chans[ci].id,
                                     limit |-> Limit, latest |-> latest_ts,
                                     oldest |-> oldest,
                                     count |-> Len(response.messages),
                                     has_more |-> response.has_more])
               /\ calls' = Append(calls, Call("conversations_history", chans[ci].id))
               /\ IF LoopEnds(response)
                  THEN /\ pc' = "scan"
                       /\ scan' = 1
                       /\ structured_data' = <<>>
                       /\ UNCHANGED latest_ts
                  ELSE /\ latest_ts' = NextLatest(response)
                       /\ UNCHANGED <<pc, scan, structured_data>>
    /\ UNCHANGED <<envVars, storage, runs, outcome, chans, ci, users,
                   main_latest_ts, start_time, idx, total_size, file_data,
                   replyLog, putLog, orphans>>

\* fetch_channel_history, lines 62-84: one turn of the for loop
ScanMessage ==
    /\ pc = "scan"
    /\ scan <= Len(messages)
    /\ LET message == messages[scan]
       IN IF ~SkipBroadcast(message) /\ IsRoot(message)
          THEN LET thread_replies == fetch_thread_replies(channel, message.ts)
               IN /\ structured_data' =
                        Append(structured_data, TopicData(message, thread_replies, users))
                  /\ replyLog' = Append(replyLog, [ts |-> message.ts, at |-> now])
                  /\ calls' = Append(calls, Call("conversations_replies", chans[ci].id))
          ELSE UNCHANGED <<structured_data, replyLog, calls>>
    /\ scan' = scan + 1
    /\ UNCHANGED <<envVars, storage, pc, runs, outcome, chans, ci, users,
                   main_latest_ts, start_time, latest_ts, messages, idx,
                   total_size, file_data, histLog, putLog, orphans>>

\* fetch_channel_history returns (line 86) and save_to_s3 starts (115-116)
ScanDone ==
    /\ pc = "scan"
    /\ scan > Len(messages)
    /\ pc' = "save"
    /\ idx' = 1 /\ total_size' = 0 /\ file_data' = <<>>
    /\ UNCHANGED <<envVars, storage, runs, outcome, chans, ci, users,
                   main_latest_ts, start_time, latest_ts, messages, scan,
                   structured_data, logVars>>

PutRecord(key, body, store) ==
    [run |-> runs, key |-> key, body |-> body,
     overwrote |-> \E o \in store : o.key = key]

\* save_to_s3, lines 118-132: one turn of the for loop
SaveEntry ==
    /\ pc = "save"
    /\ idx <= Len(structured_data)
    /\ LET entry == structured_data[idx]
           entry_size == EntrySize(entry)
           ch == chans[ci]
       IN IF MustFlush(total_size, entry_size, file_data)
          THEN LET file_name == generate_file_name(ch.name, ch.id, now)
               IN /\ storage' = PutObject(storage, file_name, file_data)
                  /\ putLog' = Append(putLog, PutRecord(file_name, file_data, storage))
                  /\ calls' = Append(calls, Call("put_object", ch.id))
                  /\ total_size' = entry_size
                  /\ file_data' = AfterFlush(file_data, entry)
          ELSE /\ total_size' = total_size + entry_size
               /\ file_data' = Append(file_data, entry)
               /\ UNCHANGED <<storage, putLog, calls>>
    /\ idx' = idx + 1
    /\ UNCHANGED <<envVars, pc, runs, outcome, chans, ci, users, main_latest_ts,
                   start_time, latest_ts, messages, scan, structured_data,
                   histLog, replyLog, orphans>>

\* save_to_s3, lines 134-142, and the return to main's loop
SaveRest ==
    /\ pc = "save"
    /\ idx > Len(structured_data)
    /\ LET ch == chans[ci]
           file_name == generate_file_name(ch.name, ch.id, now)
       IN IF file_data # <<>>
          THEN /\ storage' = PutObject(storage, file_name, file_data)
               /\ putLog' = Append(putLog, PutRecord(file_name, file_data, storage))
               /\ calls' = Append(calls, Call("put_object", ch.id))
          ELSE UNCHANGED <<storage, putLog, calls>>
    /\ pc' = "main"
    /\ ci' = ci + 1
    /\ UNCHANGED <<envVars, runs, outcome, chans, users, main_latest_ts,
                   start_time, latest_ts, messages, scan, structured_data, idx,
                   total_size, file_data, histLog, replyLog, orphans>>

WrittenThisRun == {i \in 1..Len(putLog) : putLog[i].run = runs}

RootOf(topic) == topic.messages[1].datetime

\* the roots of the Topics the writer still holds: the pending batch and the
\* entries not yet looked at
Unwritten ==
    {RootOf(file_data[i]) : i \in 1..Len(file_data)}
    \cup {RootOf(structured_data[i]) : i \in idx..Len(structured_data)}

\* the process dies (killed, out of memory, an exception of an external call)
Crash ==
    /\ pc # "idle"
    /\ pc' = "idle"
    /\ outcome' = "crashed"
    /\ orphans' = IF pc = "save" /\ WrittenThisRun # {}
                  THEN orphans \cup Unwritten ELSE orphans
    /\ FreshNext
    /\ histLog' = <<>> /\ replyLog' = <<>> /\ calls' = <<>>
    /\ UNCHANGED <<envVars, storage, runs, putLog>>

Next ==
    \/ Tick
    \/ Post
    \/ StartRun
    \/ MainStep
    \/ MainDone
    \/ HistoryRequest
    \/ ScanMessage
    \/ ScanDone
    \/ SaveEntry
    \/ SaveRest
    \/ Crash

Spec == Init /\ [][Next]_vars

\* ============================================================== claims
ArchivedRoots(store) ==
    UNION {{RootOf(o.body[i]) : i \in 1..Len(o.body)} : o \in store}

BatchSum(batch) == SumSeq([i \in 1..Len(batch) |-> EntrySize(batch[i])])

\* C1: once a later run has processed the channel and completed, every Topic
\* that a crashed run left in its unwritten batches is in some archive object.
CrashLosesNoTopic ==
    (pc = "idle" /\ outcome = "completed" /\ histLog # <<>>)
        => orphans \subseteq ArchivedRoots(storage)

\* C2: any two flushes, of one run or of different runs, write to distinct
\* object keys.
FlushKeysUnique ==
    \A i, j \in 1..Len(putLog) : i # j => putLog[i].key # putLog[j].key

\* C3: when the resolver returned T, every history request of the run carries
\* oldest = T; a request carries no oldest only when the resolver returned no
\* watermark.
OldestIsWatermark ==
    pc \in {"history", "scan", "save"} =>
        \A i \in 1..Len(histLog) :
            /\ main_latest_ts.some => histLog[i].oldest = Some(main_latest_ts.val)
            /\ ~histLog[i].oldest.some => ~main_latest_ts.some

\* C4: the writer flushes before adding a Topic exactly when the batch is not
\* empty and its size sum plus the Topic's size exceeds the budget, it flushes
\* what is left, if anything, after the last Topic, and so every written batch
\* has a size sum within the budget or holds exactly one Topic.
WriterFlushRule ==
    /\ [][(pc = "save" /\ idx' = idx + 1) =>
            /\ (Len(putLog') = Len(putLog) + 1) <=>
                   (file_data # <<>> /\
                    BatchSum(file_data) + EntrySize(structured_data[idx]) > MAX_FILE_SIZE)
            /\ Len(putLog') # Len(putLog) =>
                   /\ putLog'[Len(putLog')].body = file_data
                   /\ file_data' = <<structured_data[idx]>>
            /\ Len(putLog') = Len(putLog) =>
                   file_data' = Append(file_data, structured_data[idx])]_vars
    /\ [][(pc = "save" /\ pc' = "main") =>
            /\ (Len(putLog') = Len(putLog) + 1) <=> file_data # <<>>
            /\ Len(putLog') # Len(putLog) => putLog'[Len(putLog')].body = file_data]_vars
    /\ [](\A i \in 1..Len(putLog) :
            /\ putLog[i].body # <<>>
            /\ BatchSum(putLog[i].body) <= MAX_FILE_SIZE \/ Len(putLog[i].body) = 1)

\* C4 witness: the writer is inside its loop, holds a Topic, and has flushed
\* a batch before adding it.
WriterFlushedBeforeAdd ==
    /\ pc = "save"
    /\ file_data # <<>>
    /\ WrittenThisRun # {}

\* C5: the body written for a batch of two or more Topics is at most
\* MAX_FILE_SIZE bytes long.
BodyWithinBudget ==
    \A i \in 1..Len(putLog) :
        Len(putLog[i].body) >= 2 => BodySize(putLog[i].body) <= MAX_FILE_SIZE

\* ------------------------------- runs against a bucket that holds keys
KeyOf(name, id, file) == [channel_name |-> name, channel_id |-> id, file |-> file]

\* archive keys a bucket may hold, each with the integer its leading segment
\* stands for in Python (int("7.json"), int("not") and int("") raise)
Candidates ==
    { [key |-> KeyOf(TargetName, TargetId, <<"1", "0", "0", "0", "_", "aaa", ".json">>),
       val |-> Some(1000)],
      [key |-> KeyOf(TargetName, TargetId, <<"2", "0", "0", "0", "_", "bbb", ".json">>),
       val |-> Some(2000)],
      [key |-> KeyOf(TargetName, TargetId, <<"9", "9", "9", "_", "c", ".json">>),
       val |-> Some(999)],
      [key |-> KeyOf(TargetName, TargetId, <<"not", "_", "a", "_", "number", ".json">>),
       val |-> None],
      [key |-> KeyOf(TargetName, TargetId, <<"7", ".json">>), val |-> None],
      [key |-> KeyOf(TargetName, TargetId, <<"_", "x", ".json">>), val |-> None],
      [key |-> KeyOf(TargetName, TargetId, <<"-", "3", "_", "d", ".json">>),
       val |-> Some(0 - 3)],
      [key |-> KeyOf(TargetName, TargetId, <<"0", "_", "x", ".json">>), val |-> Some(0)],
      [key |-> KeyOf("random", "C0", <<"9", "9", "9", "9", "_", "z", ".json">>),
       val |-> None] }

InitResolver ==
    /\ now = StartClock
    /\ channel = <<>>
    /\ \E K \in SUBSET {c.key : c \in Candidates} :
          storage = {[key |-> k, body |-> <<>>] : k \in K}
    /\ pc = "idle" /\ runs = 0 /\ outcome = "none"
    /\ Fresh
    /\ histLog = <<>> /\ replyLog = <<>> /\ putLog = <<>> /\ orphans = {}
    /\ calls = <<>>

NextResolver == StartRun \/ MainStep \/ HistoryRequest

SpecResolver == InitResolver /\ [][NextResolver]_vars

\* C6: the resolver returns the greatest integer that the leading segment of
\* a key under the channel's prefix stands for, skipping the keys whose
\* segment is no integer, and no watermark exactly when there is no such key.
ResolverReturnsMax ==
    pc = "history" =>
        LET vals == {c.val.val : c \in {d \in Candidates :
                        /\ [key |-> d.key, body |-> <<>>] \in storage
                        /\ d.val.some}}
        IN IF vals = {} THEN main_latest_ts = None
           ELSE /\ main_latest_ts.some
                /\ main_latest_ts.val \in vals
                /\ \A v \in vals : v <= main_latest_ts.val

\* C6 witness: two well-formed keys and a malformed one are there, and the
\* resolver returned 2000.
ResolverSkippedMalformed ==
    /\ pc = "history"
    /\ main_latest_ts = Some(2000)
    /\ {o.key.file : o \in storage} =
          { <<"1", "0", "0", "0", "_", "aaa", ".json">>,
            <<"2", "0", "0", "0", "_", "bbb", ".json">>,
            <<"not", "_", "a", "_", "number", ".json">> }

\* ------------------------------------------------ thread reconstruction
Flagged(ts) == \E i \in 1..Len(channel) : channel[i].ts = ts /\ channel[i].reply_broadcast

\* the replies of thread ts that existed when the clock read `at`
RepliesOf(ts, at) ==
    {i \in 1..Len(channel) :
        /\ channel[i].has_thread /\ channel[i].thread_ts = ts
        /\ channel[i].ts # ts /\ channel[i].ts < at}

Reconstructing == pc \in {"scan", "save"}

\* C7 as stated: no message of any Topic is a message flagged as a broadcast
\* reply.
BroadcastAbsent ==
    Reconstructing =>
        \A i \in 1..Len(structured_data) :
            \A j \in 1..Len(structured_data[i].messages) :
                ~Flagged(DtTicks(structured_data[i].messages[j].datetime))

\* C7 as amended: a flagged message is never the first message of a Topic,
\* and every flagged reply that the thread-reply fetch returned is among the
\* later messages of the Topic of its thread.
BroadcastOnlyUnderItsThread ==
    Reconstructing =>
        \A i \in 1..Len(structured_data) :
            LET t == structured_data[i]
            IN /\ ~Flagged(DtTicks(t.messages[1].datetime))
               /\ \A r \in RepliesOf(replyLog[i].ts, replyLog[i].at) :
                     channel[r].reply_broadcast =>
                        \E j \in 2..Len(t.messages) :
                            t.messages[j].datetime = FromTimestamp(channel[r].ts)

\* C7 witness: the scan has passed a flagged message, which made no Topic of
\* its own and sits in the Topic of its thread.
BroadcastSeenAndKept ==
    /\ pc = "save"
    /\ \E k \in 1..Len(messages) : messages[k].reply_broadcast
    /\ \E i \in 1..Len(structured_data) :
          \E j \in 2..Len(structured_data[i].messages) :
              Flagged(DtTicks(structured_data[i].messages[j].datetime))

\* C8: a Topic of a root with n replies has n+1 messages, the first with the
\* root's timestamp, the others the thread's replies, every one once and the
\* root not among them, in strictly ascending order of timestamp.
TopicShape ==
    Reconstructing =>
        \A i \in 1..Len(structured_data) :
            LET t == structured_data[i]
                root == replyLog[i].ts
                replies == RepliesOf(root, replyLog[i].at)
            IN /\ Len(t.messages) = Cardinality(replies) + 1
               /\ t.messages[1].datetime = FromTimestamp(root)
               /\ {DtTicks(t.messages[j].datetime) : j \in 2..Len(t.messages)}
                     = {channel[r].ts : r \in replies}
               /\ \A j \in 2..Len(t.messages) :
                     /\ DtTicks(t.messages[j].datetime) # root
                     /\ j > 2 => DtTicks(t.messages[j - 1].datetime)
                                    < DtTicks(t.messages[j].datetime)

\* C8 witness: a Topic of a root with two replies.
TopicWithTwoReplies ==
    /\ Reconstructing
    /\ \E i \in 1..Len(structured_data) : Len(structured_data[i].messages) = 3

\* the messages the scan has gone through
Scanned == IF pc = "scan" THEN SubSeq(messages, 1, scan - 1) ELSE messages

ScannedRoots ==
    SelectSeq(Scanned, LAMBDA m : ~m.reply_broadcast /\ m.has_thread /\ m.thread_ts = m.ts)

\* C9: the Topics are, in scan order, one for every thread root among the
\* scanned messages and none for any other message, and the thread-reply
\* fetches are one for every such root, in the same order.
OneTopicPerRoot ==
    Reconstructing =>
        /\ Len(structured_data) = Len(ScannedRoots)
        /\ Len(replyLog) = Len(ScannedRoots)
        /\ \A i \in 1..Len(ScannedRoots) :
              /\ RootOf(structured_data[i]) = FromTimestamp(ScannedRoots[i].ts)
              /\ replyLog[i].ts = ScannedRoots[i].ts

\* C9 witness: three messages were scanned, two of them roots.
TwoRootsOfThree ==
    /\ pc = "save"
    /\ Len(messages) = 3
    /\ Len(structured_data) = 2

\* C10: no history request follows a page that reported has_more = false:
\* while the paginator runs every page so far reported more, and once it is
\* done the last request, and no other, is the one that reported no more.
PaginationStops ==
    /\ \A i \in 1..Len(histLog) : ~histLog[i].has_more => i = Len(histLog)
    /\ pc = "history" => \A i \in 1..Len(histLog) : histLog[i].has_more
    /\ Reconstructing => histLog # <<>> /\ ~histLog[Len(histLog)].has_more

\* C10 witness: the first page reported more, the second did not, and the
\* paginator made exactly two requests.
TwoPagesTwoRequests ==
    /\ pc = "scan"
    /\ Len(histLog) = 2
    /\ histLog[1].has_more
    /\ messages # <<>>

\* ------------------------------------------------- the normalizer alone
\* the pieces a message text is put together from: stray control
\* characters, a letter, an id written as plain text, and the mention
\* tokens of two users of the directory and of one who is not in it
NormPieces ==
    { <<"<">>, <<">">>, <<"@">>, <<"h">>, <<"U", "2">>,
      MentionToken(<<"U", "1">>), MentionToken(<<"U", "2">>),
      MentionToken(<<"U", "9">>) }

RECURSIVE Flatten(_)
Flatten(ss) == IF ss = <<>> THEN <<>> ELSE Head(ss) \o Flatten(Tail(ss))

NormTexts ==
    UNION { {Flatten(ps) : ps \in [1..n -> NormPieces]} : n \in 0..MaxPieces }

\* the directories users_list can answer with: at most one entry per id,
\* in either order
NormIds == { <<"U", "1">>, <<"U", "2">> }
NormNames == { <<"a", "l">>, <<"U", "2">> }
NormUsers ==
    { us \in UNION { [1..n -> [id : NormIds, name : NormNames]] : n \in 0..2 } :
        \A i, j \in 1..Len(us) : i # j => us[i].id # us[j].id }

\* a run that has listed one thread root of the channel and is about to
\* reconstruct it (line 62), with the directory it fetched on line 147
InitNorm ==
    \E text \in NormTexts, us \in NormUsers :
      LET root == NewMessage(StartClock, [user |-> <<"U", "1">>, text |-> text],
                             TRUE, StartClock, FALSE)
      IN /\ now = StartClock + 1
         /\ channel = <<root>>
         /\ storage = {}
         /\ pc = "scan" /\ runs = 1 /\ outcome = "none"
         /\ chans = ConversationsList(TRUE) /\ ci = 2 /\ users = us
         /\ main_latest_ts = None /\ start_time = None
         /\ latest_ts = StartClock + 1
         /\ messages = <<root>> /\ scan = 1 /\ structured_data = <<>>
         /\ idx = 0 /\ total_size = 0 /\ file_data = <<>>
         /\ histLog = << [channel |-> TargetId, limit |-> Limit,
                          latest |-> StartClock + 1, oldest |-> None,
                          count |-> 1, has_more |-> FALSE] >>
         /\ replyLog = <<>> /\ putLog = <<>> /\ orphans = {}
         /\ calls = << Call("users_list", ""), Call("conversations_list", ""),
                       Call("list_objects", TargetId),
                       Call("conversations_history", TargetId) >>

NextNorm == ScanMessage \/ ScanDone

SpecNorm == InitNorm /\ [][NextNorm]_vars

\* the directory's entry whose mention token the text starts with, or 0
TokenAt(text, us) ==
    IF \E i \in 1..Len(us) :
          /\ Len(text) >= Len(MentionToken(us[i].id))
          /\ SubSeq(text, 1, Len(MentionToken(us[i].id))) = MentionToken(us[i].id)
    THEN CHOOSE i \in 1..Len(us) :
          /\ Len(text) >= Len(MentionToken(us[i].id))
          /\ SubSeq(text, 1, Len(MentionToken(us[i].id))) = MentionToken(us[i].id)
    ELSE 0

RECURSIVE MentionsReplaced(_, _)
\* the text with every mention token of a known id that occurs in it
\* replaced by "@" and the name, and every other character as it was
MentionsReplaced(text, us) ==
    IF text = <<>> THEN <<>>
    ELSE LET i == TokenAt(text, us)
         IN IF i = 0 THEN <<Head(text)>> \o MentionsReplaced(Tail(text), us)
            ELSE <<"@">> \o us[i].name
                 \o MentionsReplaced(SubSeq(text, Len(MentionToken(us[i].id)) + 1,
                                            Len(text)), us)

\* the root has been reconstructed from the one message listed
OneRootNormalized ==
    /\ pc \in {"scan", "save"}
    /\ Len(messages) = 1 /\ Len(structured_data) = 1

\* C11: the normalized text is the raw text with "@name" in place of every
\* occurrence of "<@id>" of a known id, unknown mention tokens and all other
\* text being left as they were.
NormalizerReplacesMentions ==
    OneRootNormalized =>
        structured_data[1].topic = MentionsReplaced(messages[1].text, users)

Orders(n) ==
    { p \in [1..n -> 1..n] : \A i, j \in 1..n : i # j => p[i] # p[j] }

\* C16: the normalized text is the same in whatever order the entries of
\* the directory are taken.
NormalizerOrderIndependent ==
    OneRootNormalized =>
        \A p \in Orders(Len(users)) :
            normalize_slack_text(messages[1].text,
                                 [i \in 1..Len(users) |-> users[p[i]]])
              = structured_data[1].topic

\* ----------------------------------------------------- the writer alone
\* the texts of the thread roots the writer is fed with: a Topic of about
\* a hundred bytes, one of about half the budget, one of nearly all of it
WriterTexts == { <<"h">>, <<Filler>>, <<Filler, Filler>> }

\* the object an earlier run left in the bucket, captured at StartClock
EarlierKey == generate_file_name(TargetName, TargetId, StartClock)
EarlierBody ==
    LET m == NewMessage(StartClock - 1, [user |-> <<"U", "1">>, text |-> <<"h">>],
                        TRUE, StartClock - 1, FALSE)
    IN << TopicData(m, <<>>, fetch_users) >>

\* a run that has listed and reconstructed n thread roots, posted one tick
\* apart from StartClock on, and enters save_to_s3 (line 113); the bucket is
\* empty or holds the object of an earlier run
InitWriter ==
    \E n \in 0..MaxTopics, earlier \in BOOLEAN :
      \E texts \in [1..n -> WriterTexts] :
        LET chan == [i \in 1..n |->
                       NewMessage(StartClock + i - 1,
                                  [user |-> <<"U", "1">>, text |-> texts[i]],
                                  TRUE, StartClock + i - 1, FALSE)]
            store == IF earlier THEN PutObject({}, EarlierKey, EarlierBody) ELSE {}
            mark == get_latest_timestamp(store, TargetId, TargetName)
            listed == [j \in 1..n |-> chan[n + 1 - j]]
        IN /\ now = StartClock + n
           /\ channel = chan
           /\ storage = store
           /\ pc = "save" /\ runs = 1 /\ outcome = "none"
           /\ chans = ConversationsList(TRUE) /\ ci = 2 /\ users = fetch_users
           /\ main_latest_ts = mark
           /\ start_time = IF Truthy(mark) THEN mark ELSE None
           /\ latest_ts = StartClock + n
           /\ messages = listed /\ scan = n + 1
           /\ structured_data =
                [j \in 1..n |->
                   TopicData(listed[j], fetch_thread_replies(chan, listed[j].ts),
                             fetch_users)]
           /\ idx = 1 /\ total_size = 0 /\ file_data = <<>>
           /\ histLog = << [channel |-> TargetId, limit |-> Limit,
                            latest |-> StartClock + n,
                            oldest |-> IF Truthy(mark) THEN mark ELSE None,
                            count |-> n, has_more |-> FALSE] >>
           /\ replyLog = [j \in 1..n |-> [ts |-> listed[j].ts, at |-> StartClock + n]]
           /\ putLog = IF earlier
                       THEN << [run |-> 0, key |-> EarlierKey, body |-> EarlierBody,
                                overwrote |-> FALSE] >>
                       ELSE <<>>
           /\ orphans = {}
           /\ calls = << Call("users_list", ""), Call("conversations_list", ""),
                         Call("list_objects", TargetId),
                         Call("conversations_history", TargetId) >>
                      \o [j \in 1..n |-> Call("conversations_replies", TargetId)]

\* s3.put_object raises (lines 125 or 137): nothing is stored, the
\* exception leaves save_to_s3 and main, and the process ends
PutFails ==
    /\ pc = "save"
    /\ \/ /\ idx <= Len(structured_data)
          /\ MustFlush(total_size, EntrySize(structured_data[idx]), file_data)
       \/ /\ idx > Len(structured_data)
          /\ file_data # <<>>
    /\ pc' = "idle"
    /\ outcome' = "failed"
    /\ orphans' = IF WrittenThisRun # {} THEN orphans \cup Unwritten ELSE orphans
    /\ calls' = Append(calls, Call("put_object", chans[ci].id))
    /\ FreshNext
    /\ UNCHANGED <<envVars, storage, runs, histLog, replyLog, putLog>>

NextWriter == Tick \/ SaveEntry \/ SaveRest \/ PutFails

SpecWriter == InitWriter /\ [][NextWriter]_vars

\* C12: when a put of a run has failed, the run is over and every object
\* the run had put before is in the bucket with the body it was put with.
FailedPutKeepsEarlierObjects ==
    outcome = "failed" =>
        /\ pc = "idle"
        /\ \A i \in WrittenThisRun :
              [key |-> putLog[i].key, body |-> putLog[i].body] \in storage

\* the bodies this run has put, one after the other in the order of the puts
RECURSIVE PutSoFar(_)
PutSoFar(i) ==
    IF i > Len(putLog) THEN <<>>
    ELSE (IF putLog[i].run = runs THEN putLog[i].body ELSE <<>>) \o PutSoFar(i + 1)

\* save_to_s3 has returned to main's loop
WriterReturned == pc = "main" /\ ci > 2

\* C17: the batches put, followed by the pending batch, are the Topics
\* looked at so far in their order, and after the writer has returned the
\* batches put are the whole input; no batch put is empty; when the input is
\* empty nothing is put and the watermark is what it was.
WriterKeepsSequence ==
    /\ pc = "save" =>
          PutSoFar(1) \o file_data = SubSeq(structured_data, 1, idx - 1)
    /\ WriterReturned => PutSoFar(1) = structured_data
    /\ \A i \in WrittenThisRun : putLog[i].body # <<>>
    /\ (WriterReturned /\ structured_data = <<>>) =>
          /\ WrittenThisRun = {}
          /\ get_latest_timestamp(storage, TargetId, TargetName) = main_latest_ts

\* the writer has returned from an input of three Topics put in three batches
ThreeBatchesWritten ==
    /\ WriterReturned
    /\ Len(structured_data) = 3
    /\ Cardinality(WrittenThisRun) = 3

\* ------------------------------------------------------ the paginator
\* the number of messages the first k requests of this run returned
RECURSIVE PageEnd(_)
PageEnd(k) == IF k = 0 THEN 0 ELSE histLog[k].count + PageEnd(k - 1)

\* C13: pagination starts with latest = the clock's reading and keeps it
\* until the first request, which carries it; every later request carries
\* the timestamp of the last message of the page before it, which is not
\* above the latest of the request before; limit (1000), channel and oldest
\* are the same on all requests of the run.
LatestFollowsPages ==
    /\ [][(pc' = "history" /\ histLog' = <<>>) =>
             latest_ts' = (IF pc = "main" THEN now ELSE latest_ts)]_vars
    /\ [][Len(histLog') = Len(histLog) + 1 =>
             histLog'[Len(histLog')].latest = latest_ts]_vars
    /\ [](pc # "idle" =>
            \A k \in 1..Len(histLog) :
                /\ histLog[k].limit = 1000
                /\ histLog[k].channel = TargetId
                /\ histLog[k].oldest = histLog[1].oldest
                /\ k > 1 =>
                     /\ histLog[k - 1].count > 0
                     /\ histLog[k].latest = messages[PageEnd(k - 1)].ts
                     /\ histLog[k].latest <= histLog[k - 1].latest)

\* three requests of one run, each with a lower latest than the one before
ThreeRequestsDescending ==
    /\ pc # "idle"
    /\ Len(histLog) = 3
    /\ histLog[3].latest < histLog[2].latest
    /\ histLog[2].latest < histLog[1].latest

\* runs whose calls of the chat API all return: the channel is posted to
\* while main lists the channels and fetch_channel_history pages through
\* the history; the while loop of line 46 keeps running while it can
NextPaginate == Tick \/ Post \/ StartRun \/ MainStep \/ HistoryRequest

SpecPaginate == Init /\ [][NextPaginate]_vars /\ WF_vars(HistoryRequest)

\* the channel's messages the history of this run's bounds covers: listed
\* by the history method, older than the first request's latest, and at or
\* after its oldest when it has one
Covered ==
    {i \in 1..Len(channel) :
        /\ TopLevel(channel[i])
        /\ channel[i].ts < histLog[1].latest
        /\ histLog[1].oldest.some =>
              channel[i].ts >= histLog[1].oldest.val * TicksPerSec}

\* C14: pagination ends, and the messages it returns are the pages one
\* after the other, newest first, holding every covered message of the
\* channel once and nothing else.
PaginatorEndsComplete ==
    /\ (pc = "history") ~> (pc = "scan")
    /\ [](pc = "scan" =>
            /\ Len(messages) = PageEnd(Len(histLog))
            /\ \A j \in 1..Len(messages) - 1 : messages[j].ts > messages[j + 1].ts
            /\ \A i \in Covered :
                  Cardinality({j \in 1..Len(messages) : messages[j] = channel[i]}) = 1
            /\ \A j \in 1..Len(messages) :
                  \E i \in Covered : messages[j] = channel[i])

\* pagination has ended after three pages of one message each
ThreePagesComplete ==
    /\ pc = "scan"
    /\ Len(histLog) = 3
    /\ Len(messages) = 3

\* ------------------------------------------------- the order of calls
Rank(api) ==
    CASE api = "users_list" -> 0
      [] api = "conversations_list" -> 1
      [] api = "list_objects" -> 2
      [] api = "conversations_history" -> 3
      [] api = "conversations_replies" -> 4
      [] api = "put_object" -> 5

\* C15: a run's first call fetches the user directory and no later call
\* does; every storage listing, history request, thread fetch and put is
\* made for the target channel, and the caller is a member of it; the
\* listing comes before the history requests, these before the thread
\* fetches, these before the puts, so that nothing has been put by a run
\* that is still fetching.
CallsInOrder ==
    /\ pc # "idle" => (calls # <<>> /\ calls[1].api = "users_list")
    /\ \A i \in 2..Len(calls) : calls[i].api # "users_list"
    /\ \A i \in 1..Len(calls) :
          Rank(calls[i].api) >= 2 =>
              /\ calls[i].channel = TargetId
              /\ pc # "idle" =>
                    \E k \in 1..Len(chans) :
                        chans[k].id = TargetId /\ chans[k].is_member
    /\ \A i, j \in 1..Len(calls) :
          (i < j /\ Rank(calls[i].api) >= 2) =>
              Rank(calls[i].api) <= Rank(calls[j].api)
    /\ pc \in {"history", "scan"} => WrittenThisRun = {}

\* a run that has listed the bucket, paged twice, fetched two threads and
\* put two objects
FullRunOfCalls ==
    /\ Cardinality({i \in 1..Len(calls) : calls[i].api = "conversations_history"}) = 2
    /\ Cardinality({i \in 1..Len(calls) : calls[i].api = "conversations_replies"}) = 2
    /\ Cardinality({i \in 1..Len(calls) : calls[i].api = "put_object"}) = 2

\* ------------------------------------------------ runs that all complete
\* no process dies and no call fails
NextComplete ==
    \/ Tick
    \/ Post
    \/ StartRun
    \/ MainStep
    \/ MainDone
    \/ HistoryRequest
    \/ ScanMessage
    \/ ScanDone
    \/ SaveEntry
    \/ SaveRest

SpecComplete == Init /\ [][NextComplete]_vars

NoPutOverwrote == \A i \in 1..Len(putLog) : ~putLog[i].overwrote

\* C18: when a run that paged through the channel has completed, every
\* thread root posted before that run's pagination began is in an archive
\* object (stated for the runs none of whose puts replaced an object).
NoRootLost ==
    (pc = "idle" /\ outcome = "completed" /\ histLog # <<>> /\ NoPutOverwrote) =>
        \A i \in 1..Len(channel) :
            (/\ channel[i].has_thread
             /\ channel[i].thread_ts = channel[i].ts
             /\ channel[i].ts < histLog[1].latest) =>
                FromTimestamp(channel[i].ts) \in ArchivedRoots(storage)

RootsIn(batch) == {RootOf(batch[i]) : i \in 1..Len(batch)}

\* C19: no two objects of the bucket that were put by different runs hold
\* a Topic of the same thread root.
NoRootArchivedTwice ==
    \A i, j \in 1..Len(putLog) :
        (/\ putLog[i].run < putLog[j].run
         /\ putLog[i].key # putLog[j].key
         /\ [key |-> putLog[i].key, body |-> putLog[i].body] \in storage
         /\ [key |-> putLog[j].key, body |-> putLog[j].body] \in storage) =>
            RootsIn(putLog[i].body) \cap RootsIn(putLog[j].body) = {}

====
